---- MODULE Spec2Model ----
(***************************************************************************)
(* Model of WireframesReader (src/wireframes-reader.ts): the recursive     *)
(* crawler explorePage / exploreAllPages / run, its link classifier and    *)
(* its URL resolver.  URLs, hrefs and texts are TLA+ strings handled       *)
(* character by character, as the JavaScript string methods handle them.   *)
(***************************************************************************)
EXTENDS Integers, Sequences, FiniteSets, TLC

(***************************************************************************)
(* JavaScript string primitives used by the reader.                        *)
(***************************************************************************)

\* String.prototype.includes
Includes(s, sub) ==
    \E i \in 1..(Len(s) - Len(sub) + 1) : SubSeq(s, i, i + Len(sub) - 1) = sub

\* String.prototype.startsWith
StartsWith(s, p) == Len(p) <= Len(s) /\ SubSeq(s, 1, Len(p)) = p

\* String.prototype.endsWith
EndsWith(s, p) == Len(p) <= Len(s) /\ SubSeq(s, Len(s) - Len(p) + 1, Len(s)) = p

UpperCase == <<"A", "B", "C", "D", "E", "F", "G", "H", "I", "J", "K", "L", "M",
               "N", "O", "P", "Q", "R", "S", "T", "U", "V", "W", "X", "Y", "Z">>

LowerCase == <<"a", "b", "c", "d", "e", "f", "g", "h", "i", "j", "k", "l", "m",
               "n", "o", "p", "q", "r", "s", "t", "u", "v", "w", "x", "y", "z">>

LowerChar(c) ==
    IF \E k \in 1..Len(UpperCase) : UpperCase[k] = c
    THEN LowerCase[CHOOSE k \in 1..Len(UpperCase) : UpperCase[k] = c]
    ELSE c

RECURSIVE ToLowerCase(_)
\* String.prototype.toLowerCase
ToLowerCase(s) ==
    IF Len(s) = 0 THEN ""
    ELSE LowerChar(SubSeq(s, 1, 1)) \o ToLowerCase(SubSeq(s, 2, Len(s)))

Digits == {"0", "1", "2", "3", "4", "5", "6", "7", "8", "9"}

\* RegExp.test for a pattern of the shape /<lit>\d+/
TestLitDigits(s, lit) ==
    \E i \in 1..(Len(s) - Len(lit)) :
        /\ SubSeq(s, i, i + Len(lit) - 1) = lit
        /\ SubSeq(s, i + Len(lit), i + Len(lit)) \in Digits

RECURSIVE Trim(_)
\* String.prototype.trim (the whitespace of the modelled texts is the space)
Trim(s) ==
    IF Len(s) = 0 THEN ""
    ELSE IF SubSeq(s, 1, 1) = " " THEN Trim(SubSeq(s, 2, Len(s)))
    ELSE IF SubSeq(s, Len(s), Len(s)) = " " THEN Trim(SubSeq(s, 1, Len(s) - 1))
    ELSE s

\* String.prototype.substring(0, n)
Substring0(s, n) == SubSeq(s, 1, IF Len(s) < n THEN Len(s) ELSE n)

\* the last element of url.split('/')
LastPart(s) ==
    LET slashes == {i \in 1..Len(s) : SubSeq(s, i, i) = "/"}
        last == IF slashes = {} THEN 0
                ELSE CHOOSE i \in slashes : \A j \in slashes : j <= i
    IN SubSeq(s, last + 1, Len(s))

\* [...new Set(links)]: first occurrences, in insertion order
RECURSIVE Dedup(_)
Dedup(q) ==
    IF q = <<>> THEN <<>>
    ELSE LET front == Dedup(SubSeq(q, 1, Len(q) - 1))
             x == q[Len(q)]
         IN IF \E i \in 1..Len(front) : front[i] = x THEN front
            ELSE Append(front, x)

(***************************************************************************)
(* Program constants.                                                      *)
(***************************************************************************)

baseUrl == "https://gytx.dev/wareframes/pog_up_wareframes/"

SiteOrigin == "https://gytx.dev"

CrawlDomain == "gytx.dev"

DelayMs == 500

DescriptionMax == 100

directFileExtensions ==
    {".png", ".jpg", ".jpeg", ".gif", ".svg", ".pdf", ".zip", ".rar", ".doc", ".docx", ".txt"}

webPageExtensions == {".html", ".htm", ".php", ".asp", ".aspx", ".jsp"}

wireframeExtensions == {".png", ".jpg", ".jpeg", ".gif", ".svg", ".pdf"}

wireframeKeywords == {"wireframe", "mockup", "design", "ui", "ux", "screen"}

(***************************************************************************)
(* URL resolver and link classifier.                                       *)
(***************************************************************************)

\* a resolver that joins a root-relative reference with the current page
ResolveOntoPage(url, base) ==
    IF StartsWith(url, "http") THEN url
    ELSE (IF base = "" THEN baseUrl ELSE base) \o url

\* a resolver that takes only https references for absolute
ResolveSecureOnly(url, base) ==
    IF StartsWith(url, "https") THEN url
    ELSE IF StartsWith(url, "/") THEN SiteOrigin \o url
    ELSE (IF base = "" THEN baseUrl ELSE base) \o url

resolveUrl(url, base) ==
    IF StartsWith(url, "http") THEN url
    ELSE IF StartsWith(url, "/") THEN SiteOrigin \o url
    ELSE (IF base = "" THEN baseUrl ELSE base) \o url

\* url.match(/\/([^\/]+)\/$/)
MatchesDirPattern(url) ==
    /\ EndsWith(url, "/")
    /\ \E i \in 1..(Len(url) - 2) :
          /\ SubSeq(url, i, i) = "/"
          /\ \A j \in (i + 1)..(Len(url) - 1) : SubSeq(url, j, j) # "/"

isDirectory(url) ==
    \/ EndsWith(url, "/")
    \/ Includes(url, "/wareframes/")
    \/ Includes(url, "/pog_up_wareframes/")
    \/ (~Includes(url, ".") /\ Includes(url, "/"))
    \/ MatchesDirPattern(url)

isWebPage(url) == \E ext \in webPageExtensions : Includes(ToLowerCase(url), ext)

shouldExploreLink(url, currentUrl) ==
    IF ~Includes(url, CrawlDomain) THEN FALSE
    ELSE IF \E ext \in directFileExtensions : Includes(ToLowerCase(url), ext) THEN FALSE
    ELSE isDirectory(url) \/ isWebPage(url)

isValidPaginationLink(url, currentUrl) ==
    IF ~Includes(url, CrawlDomain) THEN FALSE
    ELSE IF url = currentUrl THEN FALSE
    ELSE \/ TestLitDigits(url, "page=")
         \/ TestLitDigits(url, "p=")
         \/ TestLitDigits(url, "offset=")
         \/ TestLitDigits(url, "/page/")
         \/ TestLitDigits(url, "/p/")

isWireframeFile(url) ==
    LET lowerUrl == ToLowerCase(url)
        hasValidExtension == \E ext \in wireframeExtensions : Includes(lowerUrl, ext)
        hasWireframeKeyword ==
            \E keyword \in wireframeKeywords :
                Includes(lowerUrl, keyword) \/ Includes(lowerUrl, "pog")
    IN hasValidExtension \/ hasWireframeKeyword

getFileType(url) ==
    LET lowerUrl == ToLowerCase(url)
    IN IF \/ Includes(lowerUrl, ".png") \/ Includes(lowerUrl, ".jpg")
          \/ Includes(lowerUrl, ".jpeg") \/ Includes(lowerUrl, ".gif")
          \/ Includes(lowerUrl, ".svg")
       THEN "image"
       ELSE IF Includes(lowerUrl, ".pdf") THEN "page"
       ELSE "unknown"

extractFileName(url) == IF LastPart(url) = "" THEN "wireframe" ELSE LastPart(url)

(***************************************************************************)
(* Fetched documents.  A document is the sequence, in document order, of   *)
(* its <a> and <img> elements.  ref is the href or src attribute ("" when  *)
(* the attribute is absent or empty), text the anchor text or the alt      *)
(* attribute, container the class of the enclosing block, parentText and   *)
(* grandParentText the text of the two enclosing elements.                 *)
(***************************************************************************)

A(ref, text, container) ==
    [tag |-> "a", ref |-> ref, text |-> text, container |-> container,
     parentText |-> text, grandParentText |-> text]

Img(ref, text) ==
    [tag |-> "img", ref |-> ref, text |-> text, container |-> "",
     parentText |-> "", grandParentText |-> ""]

extractDescription(el) ==
    IF Substring0(Trim(el.parentText), DescriptionMax) # ""
    THEN Substring0(Trim(el.parentText), DescriptionMax)
    ELSE Substring0(Trim(el.grandParentText), DescriptionMax)

\* the record built for an anchor matched by a[href*="."]
AnchorWireframe(el, sourceUrl) ==
    [name |-> IF Trim(el.text) # "" THEN Trim(el.text) ELSE extractFileName(el.ref),
     url |-> resolveUrl(el.ref, sourceUrl),
     type |-> getFileType(el.ref),
     description |-> extractDescription(el)]

\* the record built for an <img>
ImgWireframe(el, sourceUrl) ==
    [name |-> IF el.text # "" THEN el.text ELSE extractFileName(el.ref),
     url |-> resolveUrl(el.ref, sourceUrl),
     type |-> "image",
     description |-> extractDescription(el)]

RECURSIVE AnchorWireframes(_, _)
AnchorWireframes(html, sourceUrl) ==
    IF html = <<>> THEN <<>>
    ELSE LET el == Head(html)
             rest == AnchorWireframes(Tail(html), sourceUrl)
         IN IF el.tag = "a" /\ Includes(el.ref, ".") /\ isWireframeFile(el.ref)
            THEN <<AnchorWireframe(el, sourceUrl)>> \o rest
            ELSE rest

RECURSIVE ImgWireframes(_, _)
ImgWireframes(html, sourceUrl) ==
    IF html = <<>> THEN <<>>
    ELSE LET el == Head(html)
             rest == ImgWireframes(Tail(html), sourceUrl)
         IN IF el.tag = "img" /\ el.ref # "" /\ isWireframeFile(el.ref)
            THEN <<ImgWireframe(el, sourceUrl)>> \o rest
            ELSE rest

parseWireframes(html, sourceUrl) ==
    AnchorWireframes(html, sourceUrl) \o ImgWireframes(html, sourceUrl)

paginationSelectors == 1..12

\* whether element el matches the k-th entry of paginationSelectors
MatchesSelector(k, el) ==
    /\ el.tag = "a"
    /\ CASE k = 1 -> Includes(el.ref, "page=")
         [] k = 2 -> Includes(el.ref, "p=")
         [] k = 3 -> Includes(el.ref, "offset=")
         [] k = 4 -> el.container = "pagination"
         [] k = 5 -> el.container = "pager"
         [] k = 6 -> el.container = "page-nav"
         [] k = 7 -> Includes(el.text, "Suivant")
         [] k = 8 -> Includes(el.text, "Précédent")
         [] k = 9 -> Includes(el.text, "Next")
         [] k = 10 -> Includes(el.text, "Previous")
         [] k = 11 -> Includes(el.ref, "&page")
         [] k = 12 -> Includes(el.ref, "?page")

RECURSIVE SelectorLinks(_, _, _)
\* the inner $(selector).each of findPaginationLinks
SelectorLinks(k, html, currentUrl) ==
    IF html = <<>> THEN <<>>
    ELSE LET el == Head(html)
             rest == SelectorLinks(k, Tail(html), currentUrl)
         IN IF /\ MatchesSelector(k, el)
               /\ el.ref # ""
               /\ isValidPaginationLink(resolveUrl(el.ref, currentUrl), currentUrl)
            THEN <<resolveUrl(el.ref, currentUrl)>> \o rest
            ELSE rest

RECURSIVE PaginationFrom(_, _, _)
PaginationFrom(k, html, currentUrl) ==
    IF k \notin paginationSelectors THEN <<>>
    ELSE SelectorLinks(k, html, currentUrl) \o PaginationFrom(k + 1, html, currentUrl)

findPaginationLinks(html, currentUrl) == PaginationFrom(1, html, currentUrl)

RECURSIVE FollowLinks(_, _)
\* the $('a[href]').each of findLinksToExplore
FollowLinks(html, currentUrl) ==
    IF html = <<>> THEN <<>>
    ELSE LET el == Head(html)
             rest == FollowLinks(Tail(html), currentUrl)
         IN IF /\ el.tag = "a"
               /\ el.ref # ""
               /\ shouldExploreLink(resolveUrl(el.ref, currentUrl), currentUrl)
            THEN <<resolveUrl(el.ref, currentUrl)>> \o rest
            ELSE rest

findLinksToExplore(html, currentUrl) ==
    Dedup(FollowLinks(html, currentUrl) \o findPaginationLinks(html, currentUrl))

(***************************************************************************)
(* The site.  SiteUrls are the URLs the servers answer; every other URL is *)
(* a 404, which axios raises as an error.  The document behind a URL is    *)
(* fixed by the first successful fetch of it and recorded in web.          *)
(***************************************************************************)

MaxRuns == 2

MaxDepth == 6

MaxFailures == 2

PageEmpty == <<>>

PageAssets == <<A("/foo.png", "wireframe", ""), Img("/foo.png", "")>>

PageNav == <<A("sub/", "", ""), A("/wareframes/pog_up_wareframes/design.html", "Design", "")>>

PageBack == <<A("/wareframes/pog_up_wareframes/", "home", ""),
              A("/wareframes/pog_up_wareframes/sub/", "", "")>>

PageExternal == <<A("https://otherhost.com/image.png", "", ""),
                  A("https://otherhost.com/gytx.dev/", "partner", "")>>

PagePager == <<A("?page=2", "Suivant", ""), A("sub/", "", "")>>

PageScenarioA == <<A("/foo.png", "wireframe", "")>>

PageDocs == <<A("spec.pdf", "", ""), Img("ux-flow", "")>>

PageArchive == <<A("mockup", "", ""), A("report.pdf?page=2", "Next", "")>>

Pages == {PageEmpty, PageAssets, PageNav, PageBack, PageExternal, PagePager,
          PageScenarioA, PageDocs, PageArchive}

SiteUrls == {baseUrl,
             baseUrl \o "sub/",
             baseUrl \o "?page=2"}

Entries == {"exploreAllPages", "readWireframes", "run"}

(***************************************************************************)
(* State.                                                                  *)
(***************************************************************************)

VARIABLES
    web,            \* the documents served so far: URL -> document
    visitedUrls,    \* this.visitedUrls
    allWireframes,  \* this.allWireframes
    stack,          \* the pending explorePage calls, outermost first
    main,           \* the entry call in progress, its position, and the lengths
                    \* of net, allWireframes and console when it was made
    returned,       \* the array last returned by exploreAllPages
    net,            \* the requests sent and the timers set, in order
    console,        \* the summary and failure lines printed, in order
    runs,           \* the number of entry calls made on this reader
    downloads,      \* run(): the state of each downloadWireframe promise
    report,         \* the wireframes handed to generateReport
    failures,       \* the number of fetches that have failed
    resolving       \* a call of resolveUrl on its own: arguments, results, position

vars == <<web, visitedUrls, allWireframes, stack, main, returned, net, console,
          runs, downloads, report, failures, resolving>>

Get(url) == [op |-> "get", url |-> url, ms |-> 0]

Download(url) == [op |-> "download", url |-> url, ms |-> 0]

Delay(ms) == [op |-> "delay", url |-> "", ms |-> ms]

Line(kind, url, pages, wireframes) ==
    [line |-> kind, url |-> url, pages |-> pages, wireframes |-> wireframes]

Frame(url) == [url |-> url, pc |-> "fetch", links |-> <<>>, i |-> 0]

Top == stack[Len(stack)]

\* no call of resolveUrl on its own is in progress
NoCall == [url |-> "", base |-> "", out |-> "", again |-> "", pc |-> "idle"]

\* the reader after construction (lines 15-18)
Reader ==
    /\ web = [u \in {} |-> <<>>]
    /\ visitedUrls = {}
    /\ allWireframes = <<>>
    /\ stack = <<>>
    /\ main = [entry |-> "", pc |-> "idle", netStart |-> 0, invStart |-> 0, conStart |-> 0]
    /\ returned = <<>>
    /\ net = <<>>
    /\ console = <<>>
    /\ runs = 0
    /\ downloads = <<>>
    /\ report = <<>>
    /\ failures = 0

Init == Reader /\ resolving = NoCall

(***************************************************************************)
(* explorePage.                                                            *)
(***************************************************************************)

\* a reader that forgets to add the URL to the set
MarkNothing(visited, url) == visited

\* a reader that keeps only the last URL in the set
MarkOnlyThis(visited, url) == {url}

\* line 47
MarkVisited(visited, url) == visited \cup {url}

\* line 43 and line 79
IsVisited(visited, url) == url \in visited

\* an explorePage call returns: its caller resumes after the await of line 80
\* and sets the timer of line 82; the outermost call resumes exploreAllPages
ReturnTo(below, m) ==
    IF below = <<>>
    THEN /\ stack' = <<>>
         /\ main' = [m EXCEPT !.pc = "explored"]
         /\ net' = net
    ELSE /\ stack' = [below EXCEPT ![Len(below)].pc = "delay"]
         /\ main' = m
         /\ net' = Append(net, Delay(DelayMs))

\* a catch that lets the error escape to run, which exits the process
CatchRethrows(below, m) ==
    /\ stack' = <<>>
    /\ main' = [m EXCEPT !.pc = "exited"]
    /\ net' = net

\* the catch of lines 86-88: the error is logged and explorePage returns
CatchError(below, m) == ReturnTo(below, m)

\* explorePage(url) up to its first await (lines 42-51), called with the
\* calls in `below` pending
ExplorePage(url, below, m) ==
    IF IsVisited(visitedUrls, url)
    THEN ReturnTo(below, m) /\ UNCHANGED visitedUrls
    ELSE /\ visitedUrls' = MarkVisited(visitedUrls, url)
         /\ stack' = Append(below, Frame(url))
         /\ net' = Append(net, Get(url))
         /\ main' = [m EXCEPT !.pc = "exploring"]

\* an entry point is called on the reader; all three start exploreAllPages
StartRun(entry) ==
    /\ main.pc = "idle"
    /\ runs < MaxRuns
    /\ runs' = runs + 1
    /\ ExplorePage(baseUrl, <<>>,
                   [entry |-> entry, pc |-> "exploring",
                    netStart |-> Len(net), invStart |-> Len(allWireframes),
                    conStart |-> Len(console)])
    /\ UNCHANGED <<resolving, web, allWireframes, returned, console, downloads, report, failures>>

\* a reader that puts the records of a page in front of the inventory
Unshift(inventory, wireframes) == wireframes \o inventory

\* line 70: this.allWireframes.push(...wireframes)
push(inventory, wireframes) == inventory \o wireframes

\* the response has status 200 (lines 68-75)
FetchOk(html) ==
    /\ stack # <<>> /\ Top.pc = "fetch"
    /\ Top.url \in SiteUrls
    /\ IF Top.url \in DOMAIN web THEN html = web[Top.url] ELSE TRUE
    /\ web' = [u \in (DOMAIN web) \cup {Top.url} |-> IF u = Top.url THEN html ELSE web[u]]
    /\ allWireframes' = push(allWireframes, parseWireframes(html, Top.url))
    /\ stack' = [stack EXCEPT ![Len(stack)] =
                    [@ EXCEPT !.pc = "loop", !.i = 1,
                              !.links = findLinksToExplore(html, Top.url)]]
    /\ UNCHANGED <<resolving, visitedUrls, main, returned, net, console, runs, downloads, report,
                   failures>>

\* the response has another 2xx status (lines 63-66)
FetchNon200 ==
    /\ stack # <<>> /\ Top.pc = "fetch"
    /\ Top.url \in SiteUrls
    /\ failures < MaxFailures
    /\ failures' = failures + 1
    /\ console' = Append(console, Line("httpError", Top.url, 0, 0))
    /\ ReturnTo(SubSeq(stack, 1, Len(stack) - 1), main)
    /\ UNCHANGED <<resolving, web, visitedUrls, allWireframes, returned, runs, downloads, report>>

\* axios.get rejects: transport error, timeout, or a status outside 2xx (lines 86-88)
FetchError ==
    /\ stack # <<>> /\ Top.pc = "fetch"
    /\ Top.url \notin SiteUrls \/ failures < MaxFailures
    /\ failures' = IF Top.url \in SiteUrls THEN failures + 1 ELSE failures
    /\ console' = Append(console, Line("fetchError", Top.url, 0, 0))
    /\ CatchError(SubSeq(stack, 1, Len(stack) - 1), main)
    /\ UNCHANGED <<resolving, web, visitedUrls, allWireframes, returned, runs, downloads, report>>

\* a loop that stays on the same link
SameLink(i) == i

\* a loop that passes over every other link
SkipLink(i) == i + 2

\* line 78: the for...of loop moves to the next link
NextLink(i) == i + 1

\* line 79 finds the link visited: next iteration
LoopSkip ==
    /\ stack # <<>> /\ Top.pc = "loop"
    /\ Top.i <= Len(Top.links)
    /\ IsVisited(visitedUrls, Top.links[Top.i])
    /\ stack' = [stack EXCEPT ![Len(stack)].i = NextLink(@)]
    /\ UNCHANGED <<resolving, web, visitedUrls, allWireframes, main, returned, net, console, runs,
                   downloads, report, failures>>

\* a loop that goes on to the next link without waiting for the call it made
NoAwait(s) == [s EXCEPT ![Len(s)] = [@ EXCEPT !.pc = "child", !.i = NextLink(@)]]

\* the await of line 80: the innermost call waits for the call it makes
AwaitChild(s) == [s EXCEPT ![Len(s)].pc = "child"]

\* line 80: the link is not visited, explorePage(link) is called and awaited
LoopCall ==
    /\ stack # <<>> /\ Top.pc = "loop"
    /\ Top.i <= Len(Top.links)
    /\ ~IsVisited(visitedUrls, Top.links[Top.i])
    /\ Len(stack) < MaxDepth
    /\ ExplorePage(Top.links[Top.i], AwaitChild(stack), main)
    /\ UNCHANGED <<resolving, web, allWireframes, returned, console, runs, downloads, report,
                   failures>>

\* the timer of line 82 fires: next iteration
DelayDone ==
    /\ stack # <<>> /\ Top.pc = "delay"
    /\ stack' = [stack EXCEPT ![Len(stack)] = [@ EXCEPT !.pc = "loop", !.i = NextLink(@)]]
    /\ UNCHANGED <<resolving, web, visitedUrls, allWireframes, main, returned, net, console, runs,
                   downloads, report, failures>>

\* the loop of line 78 is over: explorePage returns
LoopEnd ==
    /\ stack # <<>> /\ Top.pc = "loop"
    /\ Top.i > Len(Top.links)
    /\ ReturnTo(SubSeq(stack, 1, Len(stack) - 1), main)
    /\ UNCHANGED <<resolving, web, visitedUrls, allWireframes, returned, console, runs, downloads,
                   report, failures>>

(***************************************************************************)
(* exploreAllPages, readWireframes and run after the crawl.                *)
(***************************************************************************)

\* exploreAllPages lines 35-36, entered directly or through readWireframes
ExploreAllPagesReturns ==
    /\ main.pc = "explored"
    /\ main.entry \in {"exploreAllPages", "readWireframes"}
    /\ console' = Append(console, Line("explorationDone", "", 0, Len(allWireframes)))
    /\ returned' = allWireframes
    /\ main' = [main EXCEPT !.pc = "idle"]
    /\ UNCHANGED <<resolving, web, visitedUrls, allWireframes, stack, net, runs, downloads, report,
                   failures>>

\* displayExplorationStats lines 446-449
displayExplorationStats ==
    <<Line("stats", "", Cardinality(visitedUrls), Len(allWireframes))>>

\* run lines 490-505: exploreAllPages returns into run, which stops when the
\* array is empty and otherwise prints the statistics and starts every download
RunAfterExplore ==
    /\ main.pc = "explored"
    /\ main.entry = "run"
    /\ returned' = allWireframes
    /\ IF Len(allWireframes) = 0
       THEN /\ console' = console \o <<Line("explorationDone", "", 0, 0),
                                       Line("noWireframes", "", 0, 0)>>
            /\ main' = [main EXCEPT !.pc = "idle"]
            /\ UNCHANGED <<net, downloads>>
       ELSE /\ console' = console
                    \o <<Line("explorationDone", "", 0, Len(allWireframes))>>
                    \o displayExplorationStats
            /\ net' = net \o [k \in 1..Len(allWireframes) |-> Download(allWireframes[k].url)]
            /\ downloads' = [k \in 1..Len(allWireframes) |-> "pending"]
            /\ main' = [main EXCEPT !.pc = "downloading"]
    /\ UNCHANGED <<resolving, web, visitedUrls, allWireframes, stack, runs, report, failures>>

\* one downloadWireframe promise settles (lines 360-387)
DownloadSettles(k, outcome) ==
    /\ main.pc = "downloading"
    /\ k \in 1..Len(downloads)
    /\ downloads[k] = "pending"
    /\ downloads' = [downloads EXCEPT ![k] = outcome]
    /\ UNCHANGED <<resolving, web, visitedUrls, allWireframes, stack, main, returned, net, console,
                   runs, report, failures>>

\* Promise.all: the await ends as soon as one promise is rejected
PromiseAll(d) ==
    \/ \E k \in 1..Len(d) : d[k] = "rejected"
    \/ \A k \in 1..Len(d) : d[k] = "fulfilled"

\* line 506: Promise.allSettled resolves once no promise is pending
allSettled(d) == \A k \in 1..Len(d) : d[k] # "pending"

\* Promise.allSettled resolves; generateReport is called (lines 506-517)
AllSettled ==
    /\ main.pc = "downloading"
    /\ allSettled(downloads)
    /\ console' = Append(console,
          Line("downloads", "",
               Cardinality({k \in 1..Len(downloads) : downloads[k] = "fulfilled"}),
               Cardinality({k \in 1..Len(downloads) : downloads[k] = "rejected"})))
    /\ report' = returned
    /\ downloads' = <<>>
    /\ main' = [main EXCEPT !.pc = "reporting"]
    /\ UNCHANGED <<resolving, web, visitedUrls, allWireframes, stack, returned, net, runs, failures>>

\* fs.writeJSON succeeds: run ends (lines 519-520)
ReportWritten ==
    /\ main.pc = "reporting"
    /\ console' = Append(console, Line("finished", "", 0, 0))
    /\ main' = [main EXCEPT !.pc = "idle"]
    /\ UNCHANGED <<resolving, web, visitedUrls, allWireframes, stack, returned, net, runs, downloads,
                   report, failures>>

\* fs.writeJSON throws: the catch of run calls process.exit(1) (lines 522-525)
ReportFails ==
    /\ main.pc = "reporting"
    /\ console' = Append(console, Line("runError", "", 0, 0))
    /\ main' = [main EXCEPT !.pc = "exited"]
    /\ UNCHANGED <<resolving, web, visitedUrls, allWireframes, stack, returned, net, runs, downloads,
                   report, failures>>

Next ==
    \/ \E entry \in Entries : StartRun(entry)
    \/ \E html \in Pages : FetchOk(html)
    \/ FetchNon200
    \/ FetchError
    \/ LoopSkip
    \/ LoopCall
    \/ DelayDone
    \/ LoopEnd
    \/ ExploreAllPagesReturns
    \/ RunAfterExplore
    \/ \E k \in 1..Len(downloads), outcome \in {"fulfilled", "rejected"} :
            DownloadSettles(k, outcome)
    \/ AllSettled
    \/ ReportWritten
    \/ ReportFails

Spec == Init /\ [][Next]_vars

\* Every pending request settles (axios timeout of line 52), every timer
\* fires, and the event loop runs every continuation that is ready; whether
\* an entry point is called again is up to the caller.
Progress ==
    \/ \E html \in Pages : FetchOk(html)
    \/ FetchNon200
    \/ FetchError
    \/ LoopSkip
    \/ LoopCall
    \/ DelayDone
    \/ LoopEnd
    \/ ExploreAllPagesReturns
    \/ RunAfterExplore
    \/ \E k \in 1..Len(downloads), outcome \in {"fulfilled", "rejected"} :
            DownloadSettles(k, outcome)
    \/ AllSettled
    \/ ReportWritten
    \/ ReportFails

LiveSpec == Init /\ [][Next]_vars /\ WF_vars(Progress)

(***************************************************************************)
(* resolveUrl on its own: a call with arguments drawn from ResolveRefs and *)
(* ResolveBases, followed by a call on its result with the same base.      *)
(***************************************************************************)

\* absolute references of both schemes, with and without path and query
AbsoluteRefs ==
    {scheme \o host \o path :
        scheme \in {"http://", "https://"},
        host \in {"gytx.dev", "otherhost.com"},
        path \in {"", "/", "/foo.png", "/wareframes/sub/?page=2"}}

RelativeRefs == {"", "/foo.png", "sub/", "?page=2", "mockup"}

ResolveRefs == AbsoluteRefs \cup RelativeRefs

\* "" stands for the omitted baseUrl argument
ResolveBases == {"", baseUrl, baseUrl \o "sub/", "https://otherhost.com/gytx.dev/"}

ResolveInit ==
    /\ Reader
    /\ resolving \in [url : ResolveRefs, base : ResolveBases, out : {""}, again : {""},
                      pc : {"called"}]

\* resolveUrl(url, base) returns
ResolveReturns ==
    /\ resolving.pc = "called"
    /\ resolving' = [resolving EXCEPT !.out = resolveUrl(resolving.url, resolving.base),
                                      !.pc = "returned"]
    /\ UNCHANGED <<web, visitedUrls, allWireframes, stack, main, returned, net, console,
                   runs, downloads, report, failures>>

\* resolveUrl is called on its own result, with the same base, and returns
ResolveAgain ==
    /\ resolving.pc = "returned"
    /\ resolving' = [resolving EXCEPT !.again = resolveUrl(resolving.out, resolving.base),
                                      !.pc = "resolved"]
    /\ UNCHANGED <<web, visitedUrls, allWireframes, stack, main, returned, net, console,
                   runs, downloads, report, failures>>

ResolveNext == ResolveReturns \/ ResolveAgain

ResolveSpec == ResolveInit /\ [][ResolveNext]_vars

(***************************************************************************)
(* Helpers of the properties.                                              *)
(***************************************************************************)

\* the host of an absolute URL: what follows the scheme, up to the path
HostOf(url) ==
    LET rest == IF StartsWith(url, "https://") THEN SubSeq(url, 9, Len(url))
                ELSE IF StartsWith(url, "http://") THEN SubSeq(url, 8, Len(url))
                ELSE url
        ends == {i \in 1..Len(rest) : SubSeq(rest, i, i) \in {"/", "?", "#", ":"}}
        stop == IF ends = {} THEN Len(rest) + 1
                ELSE CHOOSE i \in ends : \A j \in ends : i <= j
    IN SubSeq(rest, 1, stop - 1)

\* the positions of net holding a page request of the current entry call
RunGets == {i \in (main.netStart + 1)..Len(net) : net[i].op = "get"}

\* the positions of net holding a page request
AllGets == {i \in 1..Len(net) : net[i].op = "get"}

RECURSIVE SeqToSet(_)
SeqToSet(q) == IF q = <<>> THEN {} ELSE {Head(q)} \cup SeqToSet(Tail(q))

\* the links findLinksToExplore returns for the documents of w
LinksOf(w) == UNION {SeqToSet(findLinksToExplore(w[u], u)) : u \in DOMAIN w}

\* the links found on the documents parsed so far
DiscoveredLinks == LinksOf(web)

InventoryUrls == {allWireframes[k].url : k \in 1..Len(allWireframes)}

(***************************************************************************)
(* Properties.                                                             *)
(***************************************************************************)

\* C1: during one exploreAllPages run no URL has two fetch events, whatever
\* the self-loops, cycles and shared links of the site.
C1_FetchedAtMostOnce ==
    \A i, j \in RunGets : net[i].url = net[j].url => i = j

\* C1 witness: a page under exploration links back to the root, which is
\* visited and still pending (a cycle), and the gate of line 79 is reached.
C1_Witness ==
    /\ Len(stack) >= 2
    /\ Top.pc = "loop"
    /\ Top.i <= Len(Top.links)
    /\ Top.links[Top.i] = stack[1].url

\* C2: under fairness of fetch completion, timers and continuations, every
\* crawl reaches a state with no pending explorePage call.
C2_CrawlTerminates == (stack # <<>>) ~> (stack = <<>>)

\* C2 witness: a crawl is over after a cycle back to the root was met and
\* after both successful and failed fetches.
C2_Witness ==
    /\ main.pc = "explored"
    /\ baseUrl \in DiscoveredLinks
    /\ failures >= 1
    /\ Cardinality(DOMAIN web) >= 2

\* C3 (as claimed): every URL fetched as a page has the crawl domain as host.
C3_DomainIsolation ==
    \A i \in AllGets : HostOf(net[i].url) = CrawlDomain

\* C4 (as claimed): a reference to another host is never fetched and leaves
\* no inventory record on another host.
C4_CrossHostIgnored ==
    /\ \A i \in AllGets : net[i].url # "https://otherhost.com/image.png"
    /\ \A k \in 1..Len(allWireframes) : HostOf(allWireframes[k].url) = CrawlDomain

\* C5 (as claimed): no URL is both an inventory record and a link to follow.
C5_ClassificationExclusive ==
    InventoryUrls \cap DiscoveredLinks = {}

\* C6 (as claimed): no two records of allWireframes have the same url.
C6_InventoryDeduplicated ==
    \A i, j \in 1..Len(allWireframes) :
        allWireframes[i].url = allWireframes[j].url => i = j

\* a step in which the fetch of the innermost explorePage call fails
FetchFailsStep ==
    /\ stack # <<>>
    /\ Top.pc = "fetch"
    /\ Len(stack') = Len(stack) - 1

\* a step in which the outermost explorePage call returns
CrawlEndsStep == stack # <<>> /\ stack' = <<>>

\* C7: a failed fetch leaves the inventory as it was and aborts nothing: every
\* pending caller keeps its links and its position, the caller of the failed
\* call resumes (or, for the root, exploreAllPages resumes), and when the
\* crawl is over every link found on a parsed page has been explored.
C7_FailedFetchNonFatal ==
    [][/\ FetchFailsStep =>
            /\ allWireframes' = allWireframes
            /\ visitedUrls' = visitedUrls
            /\ main'.pc # "exited"
            /\ \A d \in 1..Len(stack') :
                  /\ stack'[d].url = stack[d].url
                  /\ stack'[d].links = stack[d].links
                  /\ stack'[d].i = stack[d].i
                  /\ stack'[d].pc = IF d = Len(stack') THEN "delay" ELSE "child"
            /\ stack' = <<>> => main'.pc = "explored"
       /\ CrawlEndsStep => LinksOf(web') \subseteq visitedUrls']_vars

\* C7 witness: a crawl is over in which a fetch failed while a caller had
\* further links left, and a later link of that caller was fetched.
C7_Witness ==
    /\ main.pc = "explored"
    /\ \E i, j \in RunGets :
          /\ 1 < i /\ i < j
          /\ \E c \in 1..Len(console) :
                console[c].line \in {"fetchError", "httpError"}
                /\ console[c].url = net[i].url
          /\ net[j].url \in DOMAIN web

\* C8 (as claimed): at most one fetch is in flight, and a 500 ms delay lies
\* between any two consecutive fetches.
C8_PolitePacing ==
    /\ Cardinality({d \in 1..Len(stack) : stack[d].pc = "fetch"}) <= 1
    /\ \A i, j \in AllGets :
          i < j => \E k \in (i + 1)..(j - 1) : net[k] = Delay(DelayMs)

\* C9 (as claimed): every completed run has printed a summary with the count
\* of pages visited and the count of assets found.
C9_SummaryAlways ==
    (main.entry = "run" /\ main.pc \in {"idle", "exited"}) =>
        \E c \in (main.conStart + 1)..Len(console) : console[c].line = "stats"

\* C10 (as claimed): every invocation fetches the root and returns only the
\* records discovered in that invocation.
C10_ScopedToInvocation ==
    (runs >= 1 /\ main.pc = "idle") =>
        /\ \E i \in RunGets : net[i].url = baseUrl
        /\ returned = SubSeq(allWireframes, main.invStart + 1, Len(allWireframes))

\* the parsed pages that hold the relative pagination anchor of scenario C
PagerAnchor == A("?page=2", "Suivant", "")

PagesWithPagerAnchor ==
    {u \in DOMAIN web : \E k \in 1..Len(web[u]) : web[u][k] = PagerAnchor}

\* C11 (as claimed): wherever the anchor <a href="?page=2">Suivant</a> is
\* found it is classified as pagination, and all its occurrences on the pages
\* of the crawl lead to one fetch at most.
C11_PaginationFollowedOnce ==
    /\ \A u \in PagesWithPagerAnchor :
          resolveUrl(PagerAnchor.ref, u) \in SeqToSet(findPaginationLinks(web[u], u))
    /\ Cardinality({net[i].url : i \in AllGets}
                   \cap {resolveUrl(PagerAnchor.ref, u) : u \in PagesWithPagerAnchor}) <= 1

\* whether a URL contains one of the asset extensions, or one of the keywords
HasAssetExtension(url) ==
    \E ext \in {".png", ".jpg", ".jpeg", ".gif", ".svg", ".pdf"} :
        Includes(ToLowerCase(url), ext)

HasAssetKeyword(url) ==
    \E word \in {"wireframe", "mockup", "design", "ui", "ux", "screen", "pog"} :
        Includes(ToLowerCase(url), word)

\* C12 (as claimed): every anchor href and image src of a fetched page whose
\* URL is on the crawl domain and contains an asset extension or an asset
\* keyword has a record in the inventory.
C12_AssetRecognitionOr ==
    \A u \in DOMAIN web : \A k \in 1..Len(web[u]) :
        LET url == resolveUrl(web[u][k].ref, u)
        IN (/\ web[u][k].ref # ""
            /\ HostOf(url) = CrawlDomain
            /\ HasAssetExtension(url) \/ HasAssetKeyword(url))
           => url \in InventoryUrls

\* the kind the extension in a URL stands for
KindByExtension(url) ==
    IF \E ext \in {".png", ".jpg", ".jpeg", ".gif", ".svg"} : Includes(ToLowerCase(url), ext)
    THEN "image"
    ELSE IF Includes(ToLowerCase(url), ".pdf") THEN "page" ELSE "unknown"

\* C13 (as claimed): the type of every inventory record, made from an anchor
\* or from an img, is the kind the extension in its url stands for, and
\* unknown when the url has none.
C13_KindByExtension ==
    \A k \in 1..Len(allWireframes) :
        allWireframes[k].type = KindByExtension(allWireframes[k].url)

\* a step in which the page of scenario A, whose only link is
\* <a href="/foo.png">wireframe</a>, is received with status 200 and parsed
ParsesScenarioA ==
    /\ stack # <<>>
    /\ Top.pc = "fetch"
    /\ Len(stack') = Len(stack)
    /\ stack'[Len(stack)].pc = "loop"
    /\ web'[Top.url] = PageScenarioA

\* C14: parsing the page of scenario A, fetched from gytx.dev, appends exactly
\* one record, of type image and url https://gytx.dev/foo.png whatever the URL
\* of the page, schedules no link, and once such a page has been parsed
\* https://gytx.dev/foo.png has not been requested as a page.
C14_ScenarioA ==
    [][/\ ParsesScenarioA =>
            /\ HostOf(Top.url) = CrawlDomain
            /\ Len(allWireframes') = Len(allWireframes) + 1
            /\ SubSeq(allWireframes', 1, Len(allWireframes)) = allWireframes
            /\ allWireframes'[Len(allWireframes')].url = "https://gytx.dev/foo.png"
            /\ allWireframes'[Len(allWireframes')].type = "image"
            /\ stack'[Len(stack)].links = <<>>
       /\ (\E u \in DOMAIN web' : web'[u] = PageScenarioA) =>
            \A i \in 1..Len(net') :
                net'[i].op = "get" => net'[i].url # "https://gytx.dev/foo.png"]_vars

\* C14 witness: the page of scenario A was fetched below the root, so that the
\* site origin and the URL of the current page differ, and has been parsed.
C14_Witness ==
    /\ Len(stack) >= 2
    /\ Top.pc = "loop"
    /\ Top.url \in DOMAIN web
    /\ web[Top.url] = PageScenarioA
    /\ allWireframes # <<>>
    /\ allWireframes[Len(allWireframes)].url = "https://gytx.dev/foo.png"

\* a reference with an http or https scheme
IsAbsolute(url) == StartsWith(url, "http://") \/ StartsWith(url, "https://")

\* C15: for every absolute reference x and every base, resolveUrl(x, base) is
\* x, and resolving the result again with the same base gives the same result.
C15_ResolveIdempotent ==
    IsAbsolute(resolving.url) =>
        /\ resolving.pc \in {"returned", "resolved"} => resolving.out = resolving.url
        /\ resolving.pc = "resolved" => resolving.again = resolving.out

\* C15 witness: an absolute http reference on another host than its base has
\* been resolved twice against a base that is given.
C15_Witness ==
    /\ resolving.pc = "resolved"
    /\ resolving.url = "http://otherhost.com/foo.png"
    /\ resolving.base = baseUrl \o "sub/"

\* C16: run starts the download of every record before awaiting any; while
\* run awaits the downloads a step settles one pending download, whatever the
\* outcome, and leaves the others as they are; run goes on only when none is
\* pending, never exits from there, and hands the whole inventory to
\* generateReport.
C16_AllSettled ==
    [][/\ (main.pc = "explored" /\ main'.pc = "downloading") =>
            /\ Len(downloads') = Len(allWireframes)
            /\ \A k \in 1..Len(allWireframes) :
                  /\ downloads'[k] = "pending"
                  /\ net'[Len(net) + k] = Download(allWireframes[k].url)
       /\ main.pc = "downloading" =>
            /\ main'.pc \in {"downloading", "reporting"}
            /\ main'.pc = "downloading" =>
                  /\ Len(downloads') = Len(downloads)
                  /\ \E k \in 1..Len(downloads) :
                        /\ downloads[k] = "pending"
                        /\ downloads'[k] \in {"fulfilled", "rejected"}
                        /\ \A j \in 1..Len(downloads) : j # k => downloads'[j] = downloads[j]
            /\ main'.pc = "reporting" =>
                  /\ \A k \in 1..Len(downloads) : downloads[k] \in {"fulfilled", "rejected"}
                  /\ report' = allWireframes]_vars

\* C16 witness: generateReport has been called with an inventory of two
\* records or more after a batch in which one download at least succeeded and
\* one at least failed.
C16_Witness ==
    /\ main.pc = "reporting"
    /\ console # <<>>
    /\ console[Len(console)].line = "downloads"
    /\ console[Len(console)].pages >= 1
    /\ console[Len(console)].wireframes >= 1
    /\ Len(report) >= 2
    /\ report = allWireframes

\* C17: no step removes a URL from visitedUrls; whenever a page request is
\* sent its URL is in visitedUrls, as is the URL of every pending explorePage
\* call; and when a link of a page is passed to explorePage the page itself is
\* already in visitedUrls.
C17_VisitedMonotonic ==
    [][/\ visitedUrls \subseteq visitedUrls'
       /\ \A i \in (Len(net) + 1)..Len(net') :
             net'[i].op = "get" => net'[i].url \in visitedUrls'
       /\ \A d \in 1..Len(stack') : stack'[d].url \in visitedUrls'
       /\ (stack # <<>> /\ Top.pc = "loop" /\ Len(stack') > Len(stack)) =>
             Top.url \in visitedUrls]_vars

\* C17 witness: the fetch of a link is in flight while the page it was found
\* on waits, both marked, after another link of that page was explored.
C17_Witness ==
    /\ Len(stack) >= 2
    /\ Top.pc = "fetch"
    /\ stack[1].i >= 2
    /\ {stack[1].url, Top.url} \subseteq visitedUrls
    /\ Cardinality(visitedUrls) >= 3

\* the pending calls that are not innermost before or after the step
OuterCalls ==
    {d \in 1..Len(stack) : d <= Len(stack') /\ (d < Len(stack) \/ d < Len(stack'))}

\* C18: a pending call that is not the innermost one keeps its link list and
\* its position in it, and waits for the call on the link at that position,
\* so that every fetch sent while it waits belongs to the sub-tree of that
\* link; only the innermost call moves, one link at a time, and evaluates the
\* gate of the link it moves to against the visited set of that moment: a
\* link visited by then is skipped without a request, any other is requested
\* next.
C18_DepthFirst ==
    [][/\ \A d \in OuterCalls :
             /\ stack'[d].url = stack[d].url
             /\ stack'[d].links = stack[d].links
             /\ stack'[d].i = stack[d].i
       /\ \A d \in 1..(Len(stack') - 1) :
             /\ stack'[d].pc = "child"
             /\ stack'[d].i \in 1..Len(stack'[d].links)
             /\ stack'[d + 1].url = stack'[d].links[stack'[d].i]
       /\ (stack # <<>> /\ Len(stack') = Len(stack) /\ stack'[Len(stack)].i # Top.i) =>
             stack'[Len(stack)].i = Top.i + 1
       /\ (stack # <<>> /\ Top.pc = "loop" /\ Top.i <= Len(Top.links)) =>
             IF Top.links[Top.i] \in visitedUrls
             THEN /\ net' = net
                  /\ Len(stack') = Len(stack)
                  /\ stack'[Len(stack)].i = Top.i + 1
             ELSE /\ net' = Append(net, Get(Top.links[Top.i]))
                  /\ Len(stack') = Len(stack) + 1
       /\ (stack # <<>> /\ Len(net') > Len(net) /\ net'[Len(net')].op = "get") =>
             /\ Top.pc = "loop"
             /\ net'[Len(net')].url = Top.links[Top.i]]_vars

\* C18 witness: the gate of a second or later link of a page finds it visited,
\* though no pending call is on it: it was requested after the page itself,
\* in the sub-tree of an earlier link of the page.
C18_Witness ==
    /\ stack # <<>>
    /\ Top.pc = "loop"
    /\ Top.i >= 2
    /\ Top.i <= Len(Top.links)
    /\ Top.links[Top.i] \in visitedUrls
    /\ \A d \in 1..Len(stack) : stack[d].url # Top.links[Top.i]
    /\ \E p, q \in RunGets :
          /\ p < q
          /\ net[p].url = Top.url
          /\ net[q].url = Top.links[Top.i]

IsPrefix(p, q) == Len(p) <= Len(q) /\ SubSeq(q, 1, Len(p)) = p

\* whether block is a run of consecutive elements of q
IsBlockOf(block, q) ==
    \E k \in 0..(Len(q) - Len(block)) : SubSeq(q, k + 1, k + Len(block)) = block

\* a step in which the innermost call receives its page and parses it
ParseStep ==
    /\ stack # <<>>
    /\ Top.pc = "fetch"
    /\ Len(stack') = Len(stack)
    /\ stack'[Len(stack)].pc = "loop"

\* C19: every step leaves allWireframes as a prefix of its new value; only the
\* step that parses a page adds to it, and adds the records of that page, in
\* document order, at the end; and when a page is parsed the records of every
\* page it was reached through are in the inventory already.
C19_AppendOnly ==
    [][/\ IsPrefix(allWireframes, allWireframes')
       /\ ParseStep =>
             /\ SubSeq(allWireframes', Len(allWireframes) + 1, Len(allWireframes'))
                   = parseWireframes(web'[Top.url], Top.url)
             /\ \A d \in 1..(Len(stack) - 1) :
                   /\ stack[d].url \in DOMAIN web
                   /\ IsBlockOf(parseWireframes(web[stack[d].url], stack[d].url),
                                allWireframes)
       /\ ~ParseStep => allWireframes' = allWireframes]_vars

\* C19 witness: a page with records was parsed, then a page reached through
\* one of its links, with records too, and the inventory holds the records of
\* the first followed by those of the second.
C19_Witness ==
    /\ Len(stack) = 2
    /\ Top.pc = "loop"
    /\ parseWireframes(web[stack[1].url], stack[1].url) # <<>>
    /\ parseWireframes(web[Top.url], Top.url) # <<>>
    /\ allWireframes = parseWireframes(web[stack[1].url], stack[1].url)
                          \o parseWireframes(web[Top.url], Top.url)

\* whether a URL contains a direct-file extension
HasDirectFileExtension(url) ==
    \E ext \in {".png", ".jpg", ".jpeg", ".gif", ".svg", ".pdf", ".zip", ".rar", ".doc",
                ".docx", ".txt"} : Includes(ToLowerCase(url), ext)

\* C20 (as claimed): no URL containing a direct-file extension is among the
\* links to explore of a parsed page, nor requested as a page.
C20_DirectFileNeverFollowed ==
    /\ \A url \in DiscoveredLinks : ~HasDirectFileExtension(url)
    /\ \A i \in AllGets : ~HasDirectFileExtension(net[i].url)

\* the pages requested by the current entry call and received with status 200
PagesOfRun == {u \in DOMAIN web : \E i \in RunGets : net[i].url = u}

\* C21: when the outermost explorePage call of an entry call has returned and
\* exploreAllPages is about to return, every link findLinksToExplore returned
\* for a page fetched with status 200 in that call is in visitedUrls,
\* whichever fetches failed.
C21_CompleteAtReturn ==
    main.pc = "explored" =>
        \A u \in PagesOfRun :
            LET links == findLinksToExplore(web[u], u)
            IN \A k \in 1..Len(links) : links[k] \in visitedUrls

\* C21 witness: exploreAllPages is about to return after a crawl in which a
\* page below the root had two links or more, a followable one and a
\* pagination one among them, and a fetch failed.
C21_Witness ==
    /\ main.pc = "explored"
    /\ \E c \in (main.conStart + 1)..Len(console) :
          console[c].line \in {"fetchError", "httpError"}
    /\ \E u \in PagesOfRun :
          /\ u # baseUrl
          /\ Len(findLinksToExplore(web[u], u)) >= 2
          /\ findPaginationLinks(web[u], u) # <<>>
          /\ FollowLinks(web[u], u) # <<>>

\* the requests for url among the first n entries of q
GetsOf(url, q, n) == {i \in 1..n : q[i].op = "get" /\ q[i].url = url}

\* C22: a URL enters visitedUrls only as the root or as a link that
\* findLinksToExplore returned for the page, fetched with status 200, whose
\* loop is running; records enter the inventory only when a page is received
\* with status 200 and are records parseWireframes makes of that page; a
\* failed or non-200 fetch adds no URL and no record, its URL stays in
\* visitedUrls and holds no document; and no URL is requested that was
\* requested before, a failed one included.
C22_Provenance ==
    [][/\ \A v \in visitedUrls' \ visitedUrls :
             \/ v = baseUrl /\ stack = <<>>
             \/ /\ stack # <<>>
                /\ Top.url \in DOMAIN web
                /\ v \in SeqToSet(findLinksToExplore(web[Top.url], Top.url))
       /\ allWireframes' # allWireframes =>
             /\ ParseStep
             /\ Top.url \in DOMAIN web'
             /\ \A k \in (Len(allWireframes) + 1)..Len(allWireframes') :
                   allWireframes'[k] \in SeqToSet(parseWireframes(web'[Top.url], Top.url))
       /\ FetchFailsStep =>
             /\ visitedUrls' = visitedUrls
             /\ allWireframes' = allWireframes
             /\ web' = web
             /\ Top.url \in visitedUrls'
             /\ Top.url \notin DOMAIN web'
       /\ \A i \in (Len(net) + 1)..Len(net') :
             net'[i].op = "get" => GetsOf(net'[i].url, net, Len(net)) = {}]_vars

\* C22 witness: after a second entry call on the reader, a link whose fetch
\* failed is in visitedUrls, was requested once, and the inventory holds
\* records.
C22_Witness ==
    /\ runs = 2
    /\ main.pc = "idle"
    /\ allWireframes # <<>>
    /\ \E c \in 1..Len(console) :
          /\ console[c].line \in {"fetchError", "httpError"}
          /\ console[c].url # baseUrl
          /\ console[c].url \in visitedUrls
          /\ console[c].url \notin DOMAIN web
          /\ Cardinality(GetsOf(console[c].url, net, Len(net))) = 1

====
